---- MODULE Spec2Model ----
(***************************************************************************)
(* Model of hetzner-ddns (src/main.rs): one run of main().                 *)
(*                                                                         *)
(* Strings the program only compares or copies (ids, the API token) are    *)
(* TLA+ strings.  Strings the program takes apart (DNS_FQDN, split on '.'; *)
(* the echo bodies, trimmed) are sequences of characters, where a          *)
(* multi-letter element such as "1.2.3.4" stands for a run of              *)
(* non-whitespace characters that the program never looks inside.          *)
(* An Option<T> is <<>> (None) or <<x>> (Some(x)).                         *)
(***************************************************************************)
EXTENDS Integers, Sequences, FiniteSets, TLC

(* ---- bounds of the model ---- *)
MaxFqdnLen == 5
MaxZones == 2
MaxRecords == 2

(* ---- the inputs of a run ---- *)
FqdnChars == {"d", "."}
ZoneNames == {<<"d">>, <<"d", ".", "d">>}
RecordNames == {<<"d">>}
ApiTokens == {"tok"}
Whitespace == {" ", "\n"}
Ip4Bodies == {<<"1.2.3.4", "\n">>, <<" ", "5.6.7.8", "\n">>, <<"error">>}
Ip6Bodies == {<<"2001:db8::1", "\n">>, <<"2001:db8::2">>, <<>>}
ApiStatuses == {200, 401}
PutStatuses == {200, 422}
Ipv4Addresses == {<<"1.2.3.4">>, <<"5.6.7.8">>}

None == <<>>
Some(x) == <<x>>
IsSome(o) == o # <<>>
Unwrap(o) == o[1]

SeqsUpTo(S, n) == UNION {[1..k -> S] : k \in 0..n}

(* Zone {id, name}; the provider's ids are unique, here by position *)
ZoneIds == <<"z1", "z2", "z3", "z4">>
ZoneLists ==
    {[i \in 1..Len(ns) |-> [id |-> ZoneIds[i], name |-> ns[i]]] :
        ns \in SeqsUpTo(ZoneNames, MaxZones)}

(* Record {id, type, name, value, zone_id, ttl} *)
RecordIds == <<"r1", "r2", "r3", "r4">>
StoredValue(t) == IF t = "A" THEN <<"1.2.3.4">> ELSE <<"2001:db8::1">>
StoredTtl(t) == IF t = "A" THEN <<3600>> ELSE <<>>
RecordShapes == [record_type : {"A", "AAAA"}, name : RecordNames]
RecordLists(zid) ==
    {[i \in 1..Len(ss) |->
        [id |-> RecordIds[i], record_type |-> ss[i].record_type,
         name |-> ss[i].name, value |-> StoredValue(ss[i].record_type),
         zone_id |-> zid, ttl |-> StoredTtl(ss[i].record_type)]] :
        ss \in SeqsUpTo(RecordShapes, MaxRecords)}

NoRecord ==
    [id |-> "", record_type |-> "", name |-> <<>>, value |-> <<>>,
     zone_id |-> "", ttl |-> None]

(* ---- pure functions ---- *)

(* str::split('.'): the pieces between the dots, empty pieces kept *)
RECURSIVE SplitFrom(_, _, _)
SplitFrom(s, i, cur) ==
    IF i > Len(s) THEN <<cur>>
    ELSE IF s[i] = "." THEN <<cur>> \o SplitFrom(s, i + 1, <<>>)
    ELSE SplitFrom(s, i + 1, Append(cur, s[i]))
(* variant: splits at the last dot only, as rsplitn(2, '.') would *)
Split_AtLastDot(s) ==
    IF \E i \in 1..Len(s) : s[i] = "."
    THEN LET k == CHOOSE i \in 1..Len(s) :
                    s[i] = "." /\ \A j \in (i + 1)..Len(s) : s[j] # "."
         IN <<SubSeq(s, 1, k - 1), SubSeq(s, k + 1, Len(s))>>
    ELSE <<s>>
Split(s) == SplitFrom(s, 1, <<>>)

(* [&str]::join(".") *)
RECURSIVE Join(_)
Join(parts) ==
    IF Len(parts) = 0 THEN <<>>
    ELSE IF Len(parts) = 1 THEN parts[1]
    ELSE parts[1] \o <<".">> \o Join(Tail(parts))

(* str::trim(): leading and trailing whitespace removed *)
RECURSIVE TrimStart(_)
TrimStart(s) ==
    IF s # <<>> /\ Head(s) \in Whitespace THEN TrimStart(Tail(s)) ELSE s
RECURSIVE TrimEnd(_)
TrimEnd(s) ==
    IF s # <<>> /\ s[Len(s)] \in Whitespace
    THEN TrimEnd(SubSeq(s, 1, Len(s) - 1)) ELSE s
Trim(s) == TrimEnd(TrimStart(s))

(* variant: zone_name.ends_with(z.name) instead of equality *)
ZoneMatches_EndsWith(z, zname) ==
    /\ Len(z.name) <= Len(zname)
    /\ SubSeq(zname, Len(zname) - Len(z.name) + 1, Len(zname)) = z.name
ZoneMatches(z, zname) == z.name = zname

(* zones.iter().find(..): the first zone that matches *)
FindZoneIn(list, zname) ==
    IF \E i \in 1..Len(list) : ZoneMatches(list[i], zname)
    THEN Some(list[CHOOSE i \in 1..Len(list) :
                 /\ ZoneMatches(list[i], zname)
                 /\ \A j \in 1..(i - 1) : ~ZoneMatches(list[j], zname)])
    ELSE None

RecordMatches(r, rname, rtype) == r.name = rname /\ r.record_type = rtype

(* records.iter().find(..): the first record that matches *)
FindRecord(list, rname, rtype) ==
    IF \E i \in 1..Len(list) : RecordMatches(list[i], rname, rtype)
    THEN Some(list[CHOOSE i \in 1..Len(list) :
                 /\ RecordMatches(list[i], rname, rtype)
                 /\ \A j \in 1..(i - 1) : ~RecordMatches(list[j], rname, rtype)])
    ELSE None

(* Record { value: ip, ttl: Some(60), ..record.to_owned() } *)
UpdateTtl == 60

(* variant: the record's own ttl is kept *)
UpdatedRecord_KeepTtl(rec, ip) == [rec EXCEPT !.value = ip]
UpdatedRecord(rec, ip) == [rec EXCEPT !.value = ip, !.ttl = Some(UpdateTtl)]

(* if record.value != ip *)
(* variant: the comparison is dropped, every run writes *)
NeedsUpdate_Always(rec, ip) == TRUE
NeedsUpdate(rec, ip) == rec.value # ip

(* ---- state ---- *)
VARIABLES
    pc,           \* the statement of main() that runs next
    update_ipv6,  \* args.ipv6
    api_token,    \* Option: HETZNER_API_TOKEN
    dns_fqdn,     \* Option: DNS_FQDN
    record_name,
    zone_name,
    ip4,
    ip6,          \* Option
    zones,        \* ZoneList.zones
    zone,         \* Option: the zone found
    records,      \* RecordList.records
    calls,        \* the HTTP calls sent so far, in order, with their responses
    aOutcome,     \* the status line printed for the A record
    aaaaOutcome,  \* the status line printed for the AAAA record
    error,        \* why main() returned Err or exited
    exitCode      \* Option: the process's exit code

vars == <<pc, update_ipv6, api_token, dns_fqdn, record_name, zone_name, ip4,
          ip6, zones, zone, records, calls, aOutcome, aaaaOutcome, error,
          exitCode>>

confVars == <<update_ipv6, api_token, dns_fqdn, record_name, zone_name>>
dataVars == <<ip4, ip6, zones, zone, records>>
outVars == <<aOutcome, aaaaOutcome>>

(* one HTTP call: sent |-> FALSE is a transport error (send() is Err);   *)
(* ok says that the whole expression of the call evaluated to Ok/Some   *)
Call(kind, target, token, payload, sent, status, ok) ==
    [call |-> kind, target |-> target, token |-> token, payload |-> payload,
     sent |-> sent, status |-> status, ok |-> ok]

Init ==
    /\ pc = "args"
    /\ update_ipv6 = FALSE
    /\ api_token = None
    /\ dns_fqdn = None
    /\ record_name = <<>>
    /\ zone_name = <<>>
    /\ ip4 = <<>>
    /\ ip6 = None
    /\ zones = <<>>
    /\ zone = None
    /\ records = <<>>
    /\ calls = <<>>
    /\ aOutcome = "unknown"
    /\ aaaaOutcome = "unknown"
    /\ error = "none"
    /\ exitCode = None

(* variant: a failed network call is sent again instead of ending the run *)
Abort_Retry(kind) ==
    IF kind = "network" /\ Len(calls) < 3
    THEN /\ pc' = pc
         /\ UNCHANGED <<error, exitCode>>
    ELSE /\ pc' = "done"
         /\ error' = kind
         /\ exitCode' = Some(1)

(* return Err(..) from main, or process::exit(1) *)
Abort(kind) ==
    /\ pc' = "done"
    /\ error' = kind
    /\ exitCode' = Some(1)

Goto(next) ==
    /\ pc' = next
    /\ UNCHANGED <<error, exitCode>>

(* Cli::parse() *)
ParseArgs ==
    /\ pc = "args"
    /\ \E flag \in BOOLEAN : update_ipv6' = flag
    /\ Goto("dotenv")
    /\ UNCHANGED <<api_token, dns_fqdn, record_name, zone_name, dataVars,
                   calls, outVars>>

(* match dotenv() *)
LoadDotenv ==
    /\ pc = "dotenv"
    /\ \E loaded \in BOOLEAN :
         IF loaded THEN Goto("env") ELSE Abort("config")
    /\ UNCHANGED <<confVars, dataVars, calls, outVars>>

(* env::var("HETZNER_API_TOKEN")?, env::var("DNS_FQDN")? *)
ReadEnv ==
    /\ pc = "env"
    /\ \E tok \in {None} \cup {Some(t) : t \in ApiTokens},
          fq \in {None} \cup {Some(f) : f \in SeqsUpTo(FqdnChars, MaxFqdnLen)} :
         IF ~IsSome(tok)
         THEN /\ Abort("config")
              /\ UNCHANGED <<api_token, dns_fqdn>>
         ELSE IF ~IsSome(fq)
         THEN /\ Abort("config")
              /\ api_token' = tok
              /\ UNCHANGED dns_fqdn
         ELSE /\ Goto("split")
              /\ api_token' = tok
              /\ dns_fqdn' = fq
    /\ UNCHANGED <<update_ipv6, record_name, zone_name, dataVars, calls,
                   outVars>>

(* parts = dns_fqdn.split('.'); record_name, zone_name *)
SplitFqdn ==
    /\ pc = "split"
    /\ LET parts == Split(Unwrap(dns_fqdn))
       IN IF Len(parts) < 2
          THEN /\ Abort("config")
               /\ UNCHANGED <<record_name, zone_name>>
          ELSE /\ Goto("ip4")
               /\ record_name' = parts[1]
               /\ zone_name' = Join(Tail(parts))
    /\ UNCHANGED <<update_ipv6, api_token, dns_fqdn, dataVars, calls, outVars>>

(* client.get("https://ipv4.icanhazip.com").send()?.text()?.trim() *)
Ip4Responses ==
    {[sent |-> FALSE, status |-> 0, body |-> None]}
    \cup [sent : {TRUE}, status : {200}, body : {Some(b) : b \in Ip4Bodies}]
    \cup {[sent |-> TRUE, status |-> 500, body |-> Some(<<"error">>)]}
    \cup {[sent |-> TRUE, status |-> 200, body |-> None]}

FetchIp4 ==
    /\ pc = "ip4"
    /\ \E r \in Ip4Responses :
         /\ calls' = Append(calls,
                Call("GET_IP4", "", "", NoRecord, r.sent, r.status,
                     r.sent /\ IsSome(r.body)))
         /\ IF r.sent /\ IsSome(r.body)
            THEN /\ ip4' = Trim(Unwrap(r.body))
                 /\ Goto("ip6")
            ELSE /\ Abort("network")
                 /\ UNCHANGED ip4
    /\ UNCHANGED <<confVars, ip6, zones, zone, records, outVars>>

(* client.get("https://ipv6.icanhazip.com").send().ok()
       .and_then(|r| r.text().ok()).map(|s| s.trim().to_string()) *)
Ip6Responses ==
    {[sent |-> FALSE, status |-> 0, body |-> None]}
    \cup [sent : {TRUE}, status : {200}, body : {Some(b) : b \in Ip6Bodies}]
    \cup {[sent |-> TRUE, status |-> 200, body |-> None]}

Ip6Of(r) ==
    IF r.sent /\ IsSome(r.body) THEN Some(Trim(Unwrap(r.body))) ELSE None

FetchIp6 ==
    /\ pc = "ip6"
    /\ \E r \in Ip6Responses :
         /\ calls' = Append(calls,
                Call("GET_IP6", "", "", NoRecord, r.sent, r.status,
                     r.sent /\ IsSome(r.body)))
         /\ ip6' = Ip6Of(r)
    /\ Goto("zones")
    /\ UNCHANGED <<confVars, ip4, zones, zone, records, outVars>>

(* A response of the provider's API: body is Some(list) when the JSON      *)
(* deserializes to the list type, None when it does not.  The provider     *)
(* answers a rejected request (non-2xx) with an error object, which has    *)
(* no list field.                                                          *)
ApiResponses(lists) ==
    {[sent |-> FALSE, status |-> 0, body |-> None]}
    \cup [sent : {TRUE}, status : ApiStatuses, body : {None}]
    \cup [sent : {TRUE}, status : {200}, body : {Some(l) : l \in lists}]

(* client.get(".../zones").header("Auth-API-Token", ..).send()?.json()? *)
GetZones ==
    /\ pc = "zones"
    /\ \E r \in ApiResponses(ZoneLists) :
         /\ calls' = Append(calls,
                Call("GET_ZONES", "", Unwrap(api_token), NoRecord,
                     r.sent, r.status, r.sent /\ IsSome(r.body)))
         /\ IF r.sent /\ IsSome(r.body)
            THEN /\ zones' = Unwrap(r.body)
                 /\ Goto("findzone")
            ELSE /\ Abort("network")
                 /\ UNCHANGED zones
    /\ UNCHANGED <<confVars, ip4, ip6, zone, records, outVars>>

(* zones.zones.iter().find(|z| z.name == zone_name).ok_or(..)? *)
FindZone ==
    /\ pc = "findzone"
    /\ zone' = FindZoneIn(zones, zone_name)
    /\ IF IsSome(zone') THEN Goto("records") ELSE Abort("zone not found")
    /\ UNCHANGED <<confVars, ip4, ip6, zones, records, calls, outVars>>

(* client.get(".../records?zone_id={zone.id}").header(..).send()?.json()? *)
GetRecords ==
    /\ pc = "records"
    /\ \E r \in ApiResponses(RecordLists(Unwrap(zone).id)) :
         /\ calls' = Append(calls,
                Call("GET_RECORDS", Unwrap(zone).id, Unwrap(api_token),
                     NoRecord, r.sent, r.status, r.sent /\ IsSome(r.body)))
         /\ IF r.sent /\ IsSome(r.body)
            THEN /\ records' = Unwrap(r.body)
                 /\ Goto("a")
            ELSE /\ Abort("network")
                 /\ UNCHANGED records
    /\ UNCHANGED <<confVars, ip4, ip6, zones, zone, outVars>>

(* client.put(".../records/{id}").header(..).json(&updated).send()? *)
PutResponses ==
    {[sent |-> FALSE, status |-> 0]} \cup [sent : {TRUE}, status : PutStatuses]

PutCall(kind, rec, ip, r) ==
    Call(kind, rec.id, Unwrap(api_token), UpdatedRecord(rec, ip),
         r.sent, r.status, r.sent)

(* the IPv4 (A) record block *)
ReconcileA ==
    /\ pc = "a"
    /\ LET found == FindRecord(records, record_name, "A")
       IN IF ~IsSome(found)
          THEN /\ aOutcome' = "not found"
               /\ Goto("aaaa")
               /\ UNCHANGED calls
          ELSE IF ~NeedsUpdate(Unwrap(found), ip4)
          THEN /\ aOutcome' = "up-to-date"
               /\ Goto("aaaa")
               /\ UNCHANGED calls
          ELSE \E r \in PutResponses :
               /\ calls' = Append(calls, PutCall("PUT_A", Unwrap(found), ip4, r))
               /\ IF r.sent
                  THEN /\ aOutcome' = "updated"
                       /\ Goto("aaaa")
                  ELSE /\ aOutcome' = "failed"
                       /\ Abort("update")
    /\ UNCHANGED <<confVars, dataVars, aaaaOutcome>>

(* the IPv6 (AAAA) record block *)
ReconcileAAAA ==
    /\ pc = "aaaa"
    /\ IF ~update_ipv6
       THEN /\ aaaaOutcome' = "disabled"
            /\ Goto("return")
            /\ UNCHANGED calls
       ELSE IF ~IsSome(ip6)
       THEN /\ aaaaOutcome' = "no address"
            /\ Goto("return")
            /\ UNCHANGED calls
       ELSE LET found == FindRecord(records, record_name, "AAAA")
            IN IF ~IsSome(found)
               THEN /\ aaaaOutcome' = "not found"
                    /\ Goto("return")
                    /\ UNCHANGED calls
               ELSE IF ~NeedsUpdate(Unwrap(found), Unwrap(ip6))
               THEN /\ aaaaOutcome' = "up-to-date"
                    /\ Goto("return")
                    /\ UNCHANGED calls
               ELSE \E r \in PutResponses :
                    /\ calls' = Append(calls,
                           PutCall("PUT_AAAA", Unwrap(found), Unwrap(ip6), r))
                    /\ IF r.sent
                       THEN /\ aaaaOutcome' = "updated"
                            /\ Goto("return")
                       ELSE /\ aaaaOutcome' = "failed"
                            /\ Abort("update")
    /\ UNCHANGED <<confVars, dataVars, aOutcome>>

(* Ok(()) *)
Return ==
    /\ pc = "return"
    /\ pc' = "done"
    /\ exitCode' = Some(0)
    /\ UNCHANGED <<confVars, dataVars, calls, outVars, error>>

Next ==
    \/ ParseArgs
    \/ LoadDotenv
    \/ ReadEnv
    \/ SplitFqdn
    \/ FetchIp4
    \/ FetchIp6
    \/ GetZones
    \/ FindZone
    \/ GetRecords
    \/ ReconcileA
    \/ ReconcileAAAA
    \/ Return

Spec == Init /\ [][Next]_vars

(* main() runs to its end: no statement waits for anything but its call *)
FairSpec == Spec /\ WF_vars(Next)

TypeOK ==
    /\ pc \in {"args", "dotenv", "env", "split", "ip4", "ip6", "zones",
               "findzone", "records", "a", "aaaa", "return", "done"}
    /\ update_ipv6 \in BOOLEAN
    /\ exitCode \in {None, Some(0), Some(1)}
    /\ (pc = "done") = IsSome(exitCode)

(* ---- properties ---- *)

CallsOf(kind) == SelectSeq(calls, LAMBDA c : c.call = kind)
Issued(kind) == \E i \in 1..Len(calls) : calls[i].call = kind
ProviderCalls == {"GET_ZONES", "GET_RECORDS", "PUT_A", "PUT_AAAA"}

(* i is the position of the record the provider returned first among those *)
(* with the target's name and the given type                               *)
Located(i, rtype) ==
    /\ i \in 1..Len(records)
    /\ records[i].name = record_name /\ records[i].record_type = rtype
    /\ \A j \in 1..(i - 1) :
         ~(records[j].name = record_name /\ records[j].record_type = rtype)

ABlockRan == aOutcome # "unknown"
AaaaBlockRan == aaaaOutcome # "unknown"

(* C1: once the A block has run with the A record located and its stored   *)
(* value different from the resolved IPv4 address, exactly one PUT has     *)
(* been issued for the A record, to that record's id, with value = the     *)
(* resolved address, ttl = 60, and id, type, name, zone_id as read.        *)
C1_OnePutOnChange ==
    \A i \in 1..Len(records) :
        (ABlockRan /\ Located(i, "A") /\ records[i].value # ip4) =>
            LET puts == CallsOf("PUT_A")
            IN /\ Len(puts) = 1
               /\ puts[1].target = records[i].id
               /\ puts[1].payload.value = ip4
               /\ puts[1].payload.ttl = <<60>>
               /\ puts[1].payload.id = records[i].id
               /\ puts[1].payload.record_type = records[i].record_type
               /\ puts[1].payload.name = records[i].name
               /\ puts[1].payload.zone_id = records[i].zone_id

C1_Witness ==
    /\ pc = "done"
    /\ exitCode = Some(0)
    /\ aOutcome = "updated"
    /\ ip4 = <<"5.6.7.8">>
    /\ Len(records) = 2 /\ Located(2, "A")
    /\ Len(CallsOf("PUT_A")) = 1
    /\ CallsOf("PUT_A")[1].target = "r2"

(* C2: when the resolved IPv4 address equals the stored value of the       *)
(* located A record, no PUT is ever issued for the A record, and once the  *)
(* A block has run its outcome is up-to-date.                              *)
C2_NoPutWhenEqual ==
    \A i \in 1..Len(records) :
        (Located(i, "A") /\ records[i].value = ip4) =>
            /\ ~Issued("PUT_A")
            /\ pc \in {"aaaa", "return", "done"} => aOutcome = "up-to-date"

C2_Witness ==
    /\ pc = "done"
    /\ \E i \in 1..Len(records) : Located(i, "A") /\ records[i].value = ip4
    /\ aOutcome = "up-to-date"
    /\ ~Issued("PUT_A")

(* C3: with --ipv6 unset the run issues neither the IPv6 echo lookup nor   *)
(* an AAAA PUT, and the AAAA outcome, once set, is skipped: disabled.      *)
C3_NoIpv6CallsWhenDisabled ==
    (pc # "args" /\ ~update_ipv6) =>
        /\ ~Issued("GET_IP6")
        /\ ~Issued("PUT_AAAA")
        /\ aaaaOutcome \in {"unknown", "disabled"}

(* C4: when the PUT of the A record fails, a run with --ipv6 set and an    *)
(* IPv6 address resolved still ends with the AAAA block having run.        *)
PutAFailed ==
    \E i \in 1..Len(calls) : calls[i].call = "PUT_A" /\ ~calls[i].sent

C4_AaaaAttemptedAfterAFailure ==
    (pc = "done" /\ PutAFailed /\ update_ipv6 /\ IsSome(ip6)) => AaaaBlockRan

(* C5: the exit code is 0 exactly when both record types end up-to-date,   *)
(* updated or gracefully skipped, and non-zero after any fatal error,      *)
(* a rejected call (non-2xx) and a failed or rejected PUT included.        *)
GoodOutcomes == {"up-to-date", "updated", "not found", "disabled", "no address"}
Is2xx(status) == status >= 200 /\ status < 300
Rejected(c) == ~c.sent \/ ~Is2xx(c.status)
FatalError ==
    \/ error # "none"
    \/ \E i \in 1..Len(calls) :
         calls[i].call \in ProviderCalls /\ Rejected(calls[i])

C5_ExitCode ==
    pc = "done" =>
        /\ exitCode = Some(0) <=>
              (aOutcome \in GoodOutcomes /\ aaaaOutcome \in GoodOutcomes)
        /\ FatalError => exitCode # Some(0)

(* C6: an FQDN with a dot splits into record_name, the part before the     *)
(* first dot, and zone_name, all that follows it; an FQDN without a dot is *)
(* a configuration error; no call precedes a configuration error.          *)
HasDot(s) == \E i \in 1..Len(s) : s[i] = "."
SplitRan == pc \notin {"args", "dotenv", "env", "split"} /\ IsSome(dns_fqdn)

C6_SplitFqdn ==
    /\ SplitRan /\ HasDot(Unwrap(dns_fqdn)) =>
          /\ error # "config"
          /\ ~HasDot(record_name)
          /\ record_name \o <<".">> \o zone_name = Unwrap(dns_fqdn)
    /\ SplitRan /\ ~HasDot(Unwrap(dns_fqdn)) =>
          pc = "done" /\ error = "config" /\ exitCode = Some(1)
    /\ error = "config" => calls = <<>>

C6_Witness ==
    /\ pc = "done"
    /\ dns_fqdn = Some(<<"d", ".", "d", ".", "d">>)
    /\ record_name = <<"d">>
    /\ zone_name = <<"d", ".", "d">>
    /\ Issued("GET_RECORDS")

C6_WitnessRejected ==
    /\ pc = "done"
    /\ dns_fqdn = Some(<<"d", "d">>)
    /\ error = "config"

(* C7: when the zone list was fetched and holds no zone named zone_name,   *)
(* the run has ended with the zone-not-found error and no record call.     *)
ZonesFetched ==
    \E i \in 1..Len(calls) : calls[i].call = "GET_ZONES" /\ calls[i].ok

C7_ZoneNotFound ==
    (ZonesFetched /\ pc # "findzone"
        /\ ~\E i \in 1..Len(zones) : zones[i].name = zone_name) =>
        /\ pc = "done"
        /\ error = "zone not found"
        /\ exitCode = Some(1)
        /\ \A i \in 1..Len(calls) :
             calls[i].call \notin {"GET_RECORDS", "PUT_A", "PUT_AAAA"}

C7_Witness ==
    /\ pc = "done"
    /\ error = "zone not found"
    /\ Len(zones) = 2
    /\ zone_name = <<"d">>

(* C8: with --ipv6 set and an IPv6 lookup that failed or returned nothing  *)
(* (transport error, unreadable or empty body), no AAAA PUT is issued, and *)
(* whatever was PUT for the A record carries the resolved IPv4 address.    *)
Ip6Nothing ==
    /\ Issued("GET_IP6")
    /\ ~IsSome(ip6) \/ ip6 = Some(<<>>)

C8_SkippedWithoutIpv6 ==
    (update_ipv6 /\ Ip6Nothing) =>
        /\ ~Issued("PUT_AAAA")
        /\ \A i \in 1..Len(calls) :
             calls[i].call = "PUT_A" => calls[i].payload.value = ip4

(* C9: an IPv4 echo call that failed, was answered non-2xx, or returned    *)
(* something that is no IPv4 address ends the run with a non-zero exit     *)
(* before any provider call.                                               *)
Ip4Bad ==
    \E i \in 1..Len(calls) :
        /\ calls[i].call = "GET_IP4"
        /\ Rejected(calls[i]) \/ ~calls[i].ok \/ ip4 \notin Ipv4Addresses

C9_AbortOnBadIpv4 ==
    Ip4Bad =>
        /\ pc = "done"
        /\ exitCode = Some(1)
        /\ \A i \in 1..Len(calls) : calls[i].call \notin ProviderCalls

(* C10: the calls of a run follow the order IPv4 echo, IPv6 echo, GET      *)
(* zones, GET records, PUT A, PUT AAAA, each at most once; a PUT comes     *)
(* only after both GETs succeeded; and every run ends.                     *)
Rank(kind) ==
    CASE kind = "GET_IP4" -> 1
      [] kind = "GET_IP6" -> 2
      [] kind = "GET_ZONES" -> 3
      [] kind = "GET_RECORDS" -> 4
      [] kind = "PUT_A" -> 5
      [] kind = "PUT_AAAA" -> 6

CallOrder ==
    /\ \A i, j \in 1..Len(calls) :
         i < j => Rank(calls[i].call) < Rank(calls[j].call)
    /\ \A i \in 1..Len(calls) :
         calls[i].call \in {"PUT_A", "PUT_AAAA"} =>
            /\ \E j \in 1..(i - 1) : calls[j].call = "GET_ZONES" /\ calls[j].ok
            /\ \E j \in 1..(i - 1) : calls[j].call = "GET_RECORDS" /\ calls[j].ok

C10_OrderedOnceAndTerminates == []CallOrder /\ <>(pc = "done")

C10_Witness ==
    /\ pc = "done"
    /\ Len(calls) = 5
    /\ Len(CallsOf("PUT_A")) = 1
    /\ \E i, j \in 1..Len(records) :
         i # j /\ records[i].name = record_name /\ records[j].name = record_name
               /\ records[i].record_type = "A" /\ records[j].record_type = "A"
====
